---- MODULE Spec2Model ----
(***************************************************************************)
(* Model of the pomodoro timer of hosang/pomodoro (src/main.cc): the       *)
(* Pomodoro phase machine (Start, FinishWork, Reset, Tick), driven by the  *)
(* polling loop of main().                                                 *)
(*                                                                         *)
(* Time is counted in quanta of 1/Quantum second.  now is the reading of   *)
(* the clocks, elapsed_time, target_time and last_update are in quanta;    *)
(* the fields of a recorded Phase are in whole seconds, as in the source.  *)
(***************************************************************************)
EXTENDS Integers, Sequences, FiniteSets, TLC

\* ---- bounds of the model ----
Quantum == 2                 \* clock readings per second
MaxNowSeconds == 3400        \* the clock stops advancing at this horizon
BootEpochSeconds == 100000   \* wall-clock time (s) at which the clock reads 0
MaxPhases == 5               \* Start() records a work phase only below this
MaxNowNoResetSeconds == 7000 \* the horizon of the runs without Reset
MaxTimerNowSeconds == 20     \* the horizon of the runs of a PomodoroTimer
MaxNowLiveSeconds == 5000    \* the horizon of the idle time in the fair runs
MaxTodos == 3                \* the longest todo list of a session state
MaxHistory == 2              \* the longest history of a session state

\* ---- program constants (src/main.cc:17-21) ----
kTimeAcceleration == 1
kWorkPhaseSeconds == 25 * 60
kShortBreakSeconds == 5 * 60
kLongBreakSeconds == 15 * 60

\* Timer::kTimeAcceleration (src/time_utils.h:14)
Timer_kTimeAcceleration == 100

\* A duration in seconds, in quanta.
Secs(s) == s * Quantum

\* The amounts by which the clock advances between two readings: a short
\* break, and a work phase and one quantum.
Steps == {Secs(kShortBreakSeconds), Secs(kWorkPhaseSeconds) + 1}

\* enum State of class Pomodoro
WORKING == "WORKING"
WORK_DONE == "WORK_DONE"
PAUSE == "PAUSE"
PAUSE_DONE == "PAUSE_DONE"
States == {WORKING, WORK_DONE, PAUSE, PAUSE_DONE}

VARIABLES
  state,            \* Pomodoro::state
  target_time,      \* Pomodoro::target_time (quanta)
  elapsed_time,     \* Pomodoro::elapsed_time (quanta)
  last_update,      \* Pomodoro::last_update (clock reading)
  pomodoros_done,   \* Pomodoro::pomodoros_done
  phases,           \* Pomodoro::phases
  beeps,            \* beep() calls since the running countdown was started
  now,              \* Clock::now(), quanta since the clock's epoch
  pc,               \* position of main(): "getch", "tick" or "done"
  ch,               \* the key read by getch() in this iteration of the loop
  called_in,        \* the phase in which this iteration called Start()/Reset()
  work_began_with,  \* pomodoros_done when the current work phase began
  work_rings,       \* work countdowns that reached their target in Tick()
  \* class PomodoroTimer and its Timer (src/time_utils.h); double seconds
  \* are counted in quanta
  timer_start,      \* Timer::start_ (optional clock reading)
  target_duration_seconds,  \* PomodoroTimer::target_duration_seconds_
  has_rung,         \* PomodoroTimer::has_rung_
  pt_start,         \* PomodoroTimer::start_ (optional wall-clock reading)
  ringing,          \* what the last IsRinging() returned
  done,             \* what the last Stop() returned
  rang_before,      \* an IsRinging() since the last Start() saw elapsed >= target
  call_parity,      \* flips at every call on the timer: no call is a stutter
  \* class State (src/state.h, src/state.cc)
  day_,             \* State::day_
  todos_,           \* State::todos_
  history_,         \* State::history_
  proto,            \* the StateProto returned by ToProto()
  restored,         \* the State constructed from proto
  spc,              \* "state", then "proto", then "restored"
  \* class Todo (src/main.cc)
  current_item      \* Todo::current_item

pvars == <<state, target_time, elapsed_time, last_update, pomodoros_done,
           phases, beeps>>
loopvars == <<pc, ch, called_in, work_began_with, work_rings>>
tvars == <<timer_start, target_duration_seconds, has_rung, pt_start, ringing,
           done, rang_before, call_parity>>
svars == <<day_, todos_, history_, proto, restored, spc, current_item>>
\* what the polling loop of main() leaves alone
others == <<tvars, svars>>
vars == <<state, target_time, elapsed_time, last_update, pomodoros_done,
          phases, beeps, now, pc, ch, called_in, work_began_with, work_rings,
          timer_start, target_duration_seconds, has_rung, pt_start, ringing,
          done, rang_before, call_parity,
          day_, todos_, history_, proto, restored, spc, current_item>>

\* std::lround of x quanta, in seconds: nearest, halves away from zero.
lround(x) ==
  IF x >= 0 THEN (2 * x + Quantum) \div (2 * Quantum)
            ELSE -((2 * (-x) + Quantum) \div (2 * Quantum))

\* unix_timestamp(offset_seconds) with the clock reading nw: the wall clock
\* minus the rounded offset, truncated to seconds.
unix_timestamp(offset, nw) ==
  (Secs(BootEpochSeconds) + nw - Secs(lround(offset))) \div Quantum

\* Pomodoro::FinishWork, as the new values of pomodoros_done and phases.
FinishWork_truncating(st, pd, ph, el, nw) ==
  IF st # WORK_DONE
    THEN [pomodoros_done |-> pd, phases |-> ph]
    ELSE [pomodoros_done |-> pd + 1,
          phases |-> Append(ph, [start_timestamp |-> unix_timestamp(el, nw),
                                 length_seconds |-> el \div Quantum])]

FinishWork_without_credit(st, pd, ph, el, nw) ==
  IF st # WORK_DONE
    THEN [pomodoros_done |-> pd, phases |-> ph]
    ELSE [pomodoros_done |-> pd,
          phases |-> Append(ph, [start_timestamp |-> unix_timestamp(el, nw),
                                 length_seconds |-> lround(el)])]

FinishWork(st, pd, ph, el, nw) ==
  IF st # WORK_DONE
    THEN [pomodoros_done |-> pd, phases |-> ph]
    ELSE [pomodoros_done |-> pd + 1,
          phases |-> Append(ph, [start_timestamp |-> unix_timestamp(el, nw),
                                 length_seconds |-> lround(el)])]

\* The test of Pomodoro::Start for the long break, on the counter that
\* FinishWork has incremented.
IsLongBreak_off_by_one(pd) == pd > 4

IsLongBreak(pd) == pd >= 4

\* Pomodoro::Start
Start_touching_running_timer ==
  CASE state \in {WORKING, PAUSE} ->
         /\ last_update' = now
         /\ UNCHANGED <<state, target_time, elapsed_time, pomodoros_done,
                        phases, beeps>>
    [] state = WORK_DONE ->
         LET f == FinishWork(state, pomodoros_done, phases, elapsed_time, now)
         IN /\ phases' = f.phases
            /\ state' = PAUSE
            /\ IF IsLongBreak(f.pomodoros_done)
                 THEN /\ pomodoros_done' = 0
                      /\ target_time' = Secs(kLongBreakSeconds)
                 ELSE /\ pomodoros_done' = f.pomodoros_done
                      /\ target_time' = Secs(kShortBreakSeconds)
            /\ elapsed_time' = 0
            /\ last_update' = now
            /\ beeps' = 0
    [] state = PAUSE_DONE ->
         /\ state' = WORKING
         /\ target_time' = Secs(kWorkPhaseSeconds)
         /\ elapsed_time' = 0
         /\ last_update' = now
         /\ beeps' = 0
         /\ UNCHANGED <<pomodoros_done, phases>>

Start_keeping_counter ==
  CASE state \in {WORKING, PAUSE} ->
         UNCHANGED pvars
    [] state = WORK_DONE ->
         LET f == FinishWork(state, pomodoros_done, phases, elapsed_time, now)
         IN /\ phases' = f.phases
            /\ state' = PAUSE
            /\ pomodoros_done' = f.pomodoros_done
            /\ IF IsLongBreak(f.pomodoros_done)
                 THEN target_time' = Secs(kLongBreakSeconds)
                 ELSE target_time' = Secs(kShortBreakSeconds)
            /\ elapsed_time' = 0
            /\ last_update' = now
            /\ beeps' = 0
    [] state = PAUSE_DONE ->
         /\ state' = WORKING
         /\ target_time' = Secs(kWorkPhaseSeconds)
         /\ elapsed_time' = 0
         /\ last_update' = now
         /\ beeps' = 0
         /\ UNCHANGED <<pomodoros_done, phases>>

Start ==
  CASE state \in {WORKING, PAUSE} ->
         UNCHANGED pvars
    [] state = WORK_DONE ->
         LET f == FinishWork(state, pomodoros_done, phases, elapsed_time, now)
         IN /\ phases' = f.phases
            /\ state' = PAUSE
            /\ IF IsLongBreak(f.pomodoros_done)
                 THEN /\ pomodoros_done' = 0
                      /\ target_time' = Secs(kLongBreakSeconds)
                 ELSE /\ pomodoros_done' = f.pomodoros_done
                      /\ target_time' = Secs(kShortBreakSeconds)
            /\ elapsed_time' = 0
            /\ last_update' = now
            /\ beeps' = 0
    [] state = PAUSE_DONE ->
         /\ state' = WORKING
         /\ target_time' = Secs(kWorkPhaseSeconds)
         /\ elapsed_time' = 0
         /\ last_update' = now
         /\ beeps' = 0
         /\ UNCHANGED <<pomodoros_done, phases>>

\* Pomodoro::Reset
Reset_falling_through ==
  CASE state = PAUSE_DONE ->
         /\ state' = PAUSE_DONE
         /\ target_time' = Secs(kShortBreakSeconds)
         /\ elapsed_time' = Secs(kShortBreakSeconds)
         /\ UNCHANGED <<last_update, pomodoros_done, phases, beeps>>
    [] state \in {WORK_DONE, WORKING} ->
         /\ state' = PAUSE_DONE
         /\ target_time' = Secs(kShortBreakSeconds)
         /\ elapsed_time' = Secs(kShortBreakSeconds)
         /\ UNCHANGED <<last_update, pomodoros_done, phases, beeps>>
    [] state = PAUSE ->
         /\ state' = WORK_DONE
         /\ target_time' = Secs(kWorkPhaseSeconds)
         /\ elapsed_time' = Secs(kWorkPhaseSeconds)
         /\ UNCHANGED <<last_update, pomodoros_done, phases, beeps>>

Reset_crediting_work ==
  CASE state = PAUSE_DONE ->
         UNCHANGED pvars
    [] state \in {WORK_DONE, WORKING} ->
         /\ state' = PAUSE_DONE
         /\ target_time' = Secs(kShortBreakSeconds)
         /\ elapsed_time' = Secs(kShortBreakSeconds)
         /\ pomodoros_done' = (pomodoros_done + 1) % 4
         /\ UNCHANGED <<last_update, phases, beeps>>
    [] state = PAUSE ->
         /\ state' = WORK_DONE
         /\ target_time' = Secs(kWorkPhaseSeconds)
         /\ elapsed_time' = Secs(kWorkPhaseSeconds)
         /\ UNCHANGED <<last_update, pomodoros_done, phases, beeps>>

Reset_dropping_phase ==
  CASE state = PAUSE_DONE ->
         UNCHANGED pvars
    [] state \in {WORK_DONE, WORKING} ->
         /\ state' = PAUSE_DONE
         /\ target_time' = Secs(kShortBreakSeconds)
         /\ elapsed_time' = Secs(kShortBreakSeconds)
         /\ UNCHANGED <<last_update, pomodoros_done, phases, beeps>>
    [] state = PAUSE ->
         /\ state' = WORK_DONE
         /\ target_time' = Secs(kWorkPhaseSeconds)
         /\ elapsed_time' = Secs(kWorkPhaseSeconds)
         /\ phases' = SubSeq(phases, 1, Len(phases) - 1)
         /\ UNCHANGED <<last_update, pomodoros_done, beeps>>

Reset_zeroing_elapsed ==
  CASE state = PAUSE_DONE ->
         UNCHANGED pvars
    [] state \in {WORK_DONE, WORKING} ->
         /\ state' = PAUSE_DONE
         /\ target_time' = Secs(kShortBreakSeconds)
         /\ elapsed_time' = 0
         /\ UNCHANGED <<last_update, pomodoros_done, phases, beeps>>
    [] state = PAUSE ->
         /\ state' = WORK_DONE
         /\ target_time' = Secs(kWorkPhaseSeconds)
         /\ elapsed_time' = 0
         /\ UNCHANGED <<last_update, pomodoros_done, phases, beeps>>

Reset ==
  CASE state = PAUSE_DONE ->
         UNCHANGED pvars
    [] state \in {WORK_DONE, WORKING} ->
         /\ state' = PAUSE_DONE
         /\ target_time' = Secs(kShortBreakSeconds)
         /\ elapsed_time' = Secs(kShortBreakSeconds)
         /\ UNCHANGED <<last_update, pomodoros_done, phases, beeps>>
    [] state = PAUSE ->
         /\ state' = WORK_DONE
         /\ target_time' = Secs(kWorkPhaseSeconds)
         /\ elapsed_time' = Secs(kWorkPhaseSeconds)
         /\ UNCHANGED <<last_update, pomodoros_done, phases, beeps>>

\* The test of Pomodoro::Tick for a timer that just finished.
JustFinished_in_any_state(st, el, tg) == el >= tg

JustFinished_in_working_only(st, el, tg) == st = WORKING /\ el >= tg

JustFinished(st, el, tg) == st \in {WORKING, PAUSE} /\ el >= tg

\* Pomodoro::Tick
Tick_counting_in_every_phase ==
  /\ elapsed_time' = elapsed_time + (now - last_update) * kTimeAcceleration
  /\ last_update' = now
  /\ IF JustFinished(state, elapsed_time', target_time)
       THEN /\ beeps' = beeps + 1
            /\ state' = CASE state = WORKING -> WORK_DONE
                           [] state = PAUSE -> PAUSE_DONE
                           [] OTHER -> state
       ELSE UNCHANGED <<state, beeps>>
  /\ UNCHANGED <<target_time, pomodoros_done, phases>>

Tick ==
  /\ IF state \in {WORKING, WORK_DONE, PAUSE}
       THEN /\ elapsed_time' = elapsed_time + (now - last_update) * kTimeAcceleration
            /\ last_update' = now
       ELSE UNCHANGED <<elapsed_time, last_update>>
  /\ IF JustFinished(state, elapsed_time', target_time)
       THEN /\ beeps' = beeps + 1
            /\ state' = CASE state = WORKING -> WORK_DONE
                           [] state = PAUSE -> PAUSE_DONE
                           [] OTHER -> state
       ELSE UNCHANGED <<state, beeps>>
  /\ UNCHANGED <<target_time, pomodoros_done, phases>>

\* Pomodoro::Draw: the seconds shown behind "work" and "pause"
Draw_remaining == lround(target_time - elapsed_time)

\* Pomodoro::Draw: the seconds shown behind "work DONE" and "pause DONE"
Draw_overtime == lround(elapsed_time - target_time)

\* ---- main(): the polling loop ----

\* The clock advances while the loop draws and polls.
Elapse(horizon) ==
  /\ pc = "getch"
  /\ UNCHANGED others
  /\ \E dt \in Steps :
       /\ now + dt <= Secs(horizon)
       /\ now' = now + dt
  /\ UNCHANGED <<pvars, pc, ch, called_in, work_began_with, work_rings>>

\* getch() returns ERR: no keypress, sleep.
KeyNone(horizon) ==
  /\ pc = "getch"
  /\ UNCHANGED others
  /\ ch' = "ERR"
  /\ \E dt \in Steps :
       /\ now + dt <= Secs(horizon)
       /\ now' = now + dt
  /\ pc' = "tick"
  /\ called_in' = "none"
  /\ UNCHANGED <<pvars, work_began_with, work_rings>>

\* getch() returns ERR, in the runs where time keeps advancing: the idle time
\* and the keypresses are bounded by the horizon, the time of a countdown short
\* of its target is not.
KeyNoneLive ==
  /\ pc = "getch"
  /\ UNCHANGED others
  /\ ch' = "ERR"
  /\ \E dt \in Steps :
       /\ \/ now + dt <= Secs(MaxNowLiveSeconds)
          \/ state \in {WORKING, PAUSE} /\ elapsed_time < target_time
       /\ now' = now + dt
  /\ pc' = "tick"
  /\ called_in' = "none"
  /\ UNCHANGED <<pvars, work_began_with, work_rings>>

\* 's': pomodoro.Start()
KeyStart ==
  /\ pc = "getch"
  /\ UNCHANGED others
  /\ state = WORK_DONE => Len(phases) < MaxPhases
  /\ ch' = "s"
  /\ Start
  /\ called_in' = state
  /\ work_began_with' = IF state = PAUSE_DONE THEN pomodoros_done
                                              ELSE work_began_with
  /\ UNCHANGED work_rings
  /\ pc' = "tick"
  /\ UNCHANGED now

\* 's' within the horizon of the fair runs
KeyStartLive ==
  /\ now <= Secs(MaxNowLiveSeconds)
  /\ KeyStart

\* 'r': pomodoro.Reset()
KeyReset ==
  /\ pc = "getch"
  /\ UNCHANGED others
  /\ ch' = "r"
  /\ Reset
  /\ called_in' = state
  /\ pc' = "tick"
  /\ UNCHANGED <<now, work_began_with, work_rings>>

\* pomodoro.Tick() at the end of every iteration, then the redraw.
LoopTick ==
  /\ pc = "tick"
  /\ UNCHANGED others
  /\ Tick
  /\ pc' = "getch"
  /\ ch' = "none"
  /\ called_in' = "none"
  /\ work_rings' = IF state = WORKING /\ state' = WORK_DONE THEN work_rings + 1
                                                            ELSE work_rings
  /\ UNCHANGED <<now, work_began_with>>

\* 'q': leave the loop, pomodoro.FinishWork(), save.
KeyQuit ==
  /\ pc = "getch"
  /\ UNCHANGED others
  /\ ch' = "q"
  /\ LET f == FinishWork(state, pomodoros_done, phases, elapsed_time, now)
     IN /\ pomodoros_done' = f.pomodoros_done
        /\ phases' = f.phases
  /\ pc' = "done"
  /\ called_in' = "none"
  /\ UNCHANGED <<state, target_time, elapsed_time, last_update, beeps, now,
                 work_began_with, work_rings>>

\* ---- class Timer and class PomodoroTimer (src/time_utils.h) ----

\* The amounts by which the clock advances between two calls on the timer:
\* one quantum, and 3s (300s of accelerated time).
TimerSteps == {1, Secs(3)}

\* The target durations (s) passed to PomodoroTimer::Start.
TimerTargets == {0, kShortBreakSeconds, kWorkPhaseSeconds}

\* std::nullopt; an optional holding v is <<v>>.
nullopt == <<>>

\* A default-constructed Done message; a time string is the sequence of its
\* fields, the empty string the empty sequence.
EmptyDone == [start_time |-> <<>>, end_time |-> <<>>, duration_seconds |-> 0]

\* PomodoroTimer::FormatTime: "%H:%M" of the wall-clock reading w, as the
\* pair of the hour and the minute of the day.
FormatTime(w) ==
  LET minutes == ((w \div Quantum) \div 60) % (24 * 60)
  IN <<minutes \div 60, minutes % 60>>

\* system_clock::now() when the steady clock reads nw.
WallClock(nw) == Secs(BootEpochSeconds) + nw

\* Timer::ElapsedSeconds with start_ = st at the clock reading nw.
Timer_ElapsedSeconds(st, nw) ==
  IF st = nullopt THEN 0 ELSE (nw - st[1]) * Timer_kTimeAcceleration

\* PomodoroTimer::ElapsedSeconds
ElapsedSeconds == Timer_ElapsedSeconds(timer_start, now)

\* PomodoroTimer::active
active == pt_start # nullopt

Max(a, b) == IF a >= b THEN a ELSE b

\* PomodoroTimer::RemainingSeconds
RemainingSeconds_unclamped(tg, el) == tg - el

RemainingSeconds(tg, el) == Max(0, tg - el)

\* PomodoroTimer::OvertimeSeconds
OvertimeSeconds(tg, el) == Max(0, el - tg)

\* PomodoroTimer::ElapsedFraction, the quotient num / den of two doubles.
ElapsedFraction(tg, el) == [num |-> el, den |-> tg]

\* PomodoroTimer::Start
PTStart(target_duration) ==
  /\ target_duration_seconds' = Secs(target_duration)
  /\ has_rung' = FALSE
  /\ pt_start' = <<WallClock(now)>>
  /\ timer_start' = <<now>>
  /\ rang_before' = FALSE
  /\ UNCHANGED <<ringing, done>>

\* PomodoroTimer::Stop
PTStop_keeping_timer ==
  IF pt_start = nullopt
    THEN /\ done' = EmptyDone
         /\ UNCHANGED <<timer_start, target_duration_seconds, has_rung,
                        pt_start, ringing, rang_before>>
    ELSE /\ done' = [start_time |-> FormatTime(pt_start[1]),
                     end_time |-> FormatTime(WallClock(now)),
                     duration_seconds |-> Timer_ElapsedSeconds(timer_start, now)]
         /\ pt_start' = nullopt
         /\ UNCHANGED <<timer_start, target_duration_seconds, has_rung,
                        ringing, rang_before>>

PTStop ==
  IF pt_start = nullopt
    THEN /\ done' = EmptyDone
         /\ UNCHANGED <<timer_start, target_duration_seconds, has_rung,
                        pt_start, ringing, rang_before>>
    ELSE /\ done' = [start_time |-> FormatTime(pt_start[1]),
                     end_time |-> FormatTime(WallClock(now)),
                     duration_seconds |-> Timer_ElapsedSeconds(timer_start, now)]
         /\ pt_start' = nullopt
         /\ timer_start' = nullopt
         /\ UNCHANGED <<target_duration_seconds, has_rung, ringing,
                        rang_before>>

\* PomodoroTimer::IsRinging
PTIsRinging_level_triggered ==
  /\ ringing' = (~has_rung /\ ElapsedSeconds >= target_duration_seconds)
  /\ rang_before' = (rang_before \/ ElapsedSeconds >= target_duration_seconds)
  /\ UNCHANGED <<timer_start, target_duration_seconds, pt_start, done,
                 has_rung>>

PTIsRinging ==
  /\ IF has_rung
       THEN /\ ringing' = FALSE
            /\ UNCHANGED has_rung
       ELSE IF ElapsedSeconds >= target_duration_seconds
              THEN /\ has_rung' = TRUE
                   /\ ringing' = TRUE
              ELSE /\ ringing' = FALSE
                   /\ UNCHANGED has_rung
  /\ rang_before' = (rang_before \/ ElapsedSeconds >= target_duration_seconds)
  /\ UNCHANGED <<timer_start, target_duration_seconds, pt_start, done>>

\* The calls a user of a PomodoroTimer makes, and the clock between them.
CallStart ==
  /\ \E target_duration \in TimerTargets : PTStart(target_duration)
  /\ call_parity' = ~call_parity
  /\ UNCHANGED <<pvars, loopvars, now, svars>>

CallStop ==
  /\ PTStop
  /\ call_parity' = ~call_parity
  /\ UNCHANGED <<pvars, loopvars, now, svars>>

CallIsRinging ==
  /\ PTIsRinging
  /\ call_parity' = ~call_parity
  /\ UNCHANGED <<pvars, loopvars, now, svars>>

TimerElapse ==
  /\ \E dt \in TimerSteps :
       /\ now + dt <= Secs(MaxTimerNowSeconds)
       /\ now' = now + dt
  /\ UNCHANGED <<pvars, loopvars, tvars, svars>>

\* ---- class State (src/state.h, src/state.cc) ----

Days == {"2021-04-19", "2021-04-20"}
Texts == {"write", "read"}
Dones ==
  {[start_time |-> <<9, 0>>, end_time |-> <<9, 25>>,
    duration_seconds |-> Secs(kWorkPhaseSeconds)],
   [start_time |-> <<9, 30>>, end_time |-> <<9, 56>>,
    duration_seconds |-> Secs(kWorkPhaseSeconds) + 1]}

\* The sequences over S of length at most n.
SeqsUpTo(S, n) == UNION {[1..k -> S] : k \in 0..n}

\* The item that State::State adds to an empty todo list.
DefaultTodo == [done |-> FALSE, text |-> "Make TODO list"]

\* A default-constructed StateProto.
EmptyProto == [todo |-> <<>>, history |-> [day |-> "", done |-> <<>>]]

\* No State has been constructed from proto yet.
NoState == [day_ |-> "", todos_ |-> <<>>, history_ |-> <<>>]

\* State::AddTodo
AddTodo(td, text) == Append(td, [done |-> FALSE, text |-> text])

\* The loop of State::ToProto over todos_: add_todo of every item not done.
RECURSIVE PendingTexts(_)
PendingTexts(td) ==
  IF td = <<>> THEN <<>>
  ELSE IF ~Head(td).done THEN <<Head(td).text>> \o PendingTexts(Tail(td))
                         ELSE PendingTexts(Tail(td))

\* State::ToProto
StateToProto(d, td, h) ==
  [todo |-> PendingTexts(td), history |-> [day |-> d, done |-> h]]

\* The loop of State::State over proto.todo(): AddTodo of every description.
RECURSIVE AddTodos(_, _)
AddTodos(td, descrs) ==
  IF descrs = <<>> THEN td
  ELSE AddTodos(AddTodo(td, Head(descrs)), Tail(descrs))

\* State::State(const StateProto &)
StateFromProto_without_default(pr) ==
  [day_ |-> pr.history.day,
   todos_ |-> AddTodos(<<>>, pr.todo),
   history_ |-> pr.history.done]

StateFromProto(pr) ==
  LET td == AddTodos(<<>>, pr.todo)
  IN [day_ |-> pr.history.day,
      todos_ |-> IF td = <<>> THEN AddTodo(td, DefaultTodo.text) ELSE td,
      history_ |-> pr.history.done]

\* s.ToProto()
ToProto ==
  /\ spc = "state"
  /\ proto' = StateToProto(day_, todos_, history_)
  /\ spc' = "proto"
  /\ UNCHANGED <<pvars, loopvars, now, tvars, day_, todos_, history_, restored,
                 current_item>>

\* State(proto)
FromProto ==
  /\ spc = "proto"
  /\ restored' = StateFromProto(proto)
  /\ spc' = "restored"
  /\ UNCHANGED <<pvars, loopvars, now, tvars, day_, todos_, history_, proto,
                 current_item>>

\* ---- class Todo (src/main.cc) over the todo list of State ----

Min(a, b) == IF a <= b THEN a ELSE b

\* index >= todos_.size() for an int index: a negative index converts to a
\* size_t above every size.
IndexBeyondSize(index, td) == index < 0 \/ index >= Len(td)

\* State::AddTodoFront
AddTodoFront(td, text) == <<[done |-> FALSE, text |-> text]>> \o td

\* State::ToggleTodo
ToggleTodo(td, index) ==
  IF IndexBeyondSize(index, td) THEN td
  ELSE [td EXCEPT ![index + 1].done = ~td[index + 1].done]

\* State::DeleteTodo
DeleteTodo(td, index) ==
  IF IndexBeyondSize(index, td) THEN td
  ELSE SubSeq(td, 1, index) \o SubSeq(td, index + 2, Len(td))

\* Todo::Up
Up(cur) == Max(cur - 1, 0)

\* Todo::Down: todos().size() - 1 converted to int is -1 for the empty list.
Down(cur, td) == Max(Min(cur + 1, Len(td) - 1), 0)

\* 'k': todo.Up()
TodoUp ==
  /\ current_item' = Up(current_item)
  /\ UNCHANGED <<pvars, loopvars, now, tvars,
                 day_, todos_, history_, proto, restored, spc>>

\* 'j': todo.Down()
TodoDown ==
  /\ current_item' = Down(current_item, todos_)
  /\ UNCHANGED <<pvars, loopvars, now, tvars,
                 day_, todos_, history_, proto, restored, spc>>

\* ' ': todo.Toggle()
TodoToggle ==
  /\ todos_' = ToggleTodo(todos_, current_item)
  /\ UNCHANGED <<pvars, loopvars, now, tvars,
                 day_, history_, proto, restored, spc, current_item>>

\* 'n': todo.New(), with the text the user types
TodoNew ==
  /\ Len(todos_) < MaxTodos
  /\ current_item' = 0
  /\ \E text \in Texts : todos_' = AddTodoFront(todos_, text)
  /\ UNCHANGED <<pvars, loopvars, now, tvars,
                 day_, history_, proto, restored, spc>>

\* 'D': todo.Delete()
TodoDelete ==
  /\ todos_' = DeleteTodo(todos_, current_item)
  /\ UNCHANGED <<pvars, loopvars, now, tvars,
                 day_, history_, proto, restored, spc, current_item>>

\* The Pomodoro, the loop and a PomodoroTimer as constructed.
InitTimers ==
  /\ state = PAUSE_DONE
  /\ target_time = 0
  /\ elapsed_time = 0
  /\ last_update = 0
  /\ pomodoros_done = 0
  /\ phases = <<>>
  /\ beeps = 0
  /\ now = 0
  /\ pc = "getch"
  /\ ch = "none"
  /\ called_in = "none"
  /\ work_began_with = 0
  /\ work_rings = 0
  /\ timer_start = nullopt
  /\ target_duration_seconds = 0
  /\ has_rung = FALSE
  /\ pt_start = nullopt
  /\ ringing = FALSE
  /\ done = EmptyDone
  /\ rang_before = FALSE
  /\ call_parity = FALSE

\* The session state of a run of main(): a day, the default todo item.
Init ==
  /\ InitTimers
  /\ day_ = "2021-04-19"
  /\ todos_ = <<DefaultTodo>>
  /\ history_ = <<>>
  /\ proto = EmptyProto
  /\ restored = NoState
  /\ spc = "state"
  /\ current_item = 0

Next ==
  \/ Elapse(MaxNowSeconds)
  \/ KeyNone(MaxNowSeconds)
  \/ KeyStart
  \/ KeyReset
  \/ LoopTick
  \/ KeyQuit

Spec == Init /\ [][Next]_vars

\* The runs in which 'r' is never pressed, over a longer horizon.
NextNoReset ==
  \/ Elapse(MaxNowNoResetSeconds)
  \/ KeyNone(MaxNowNoResetSeconds)
  \/ KeyStart
  \/ LoopTick
  \/ KeyQuit

SpecNoReset == Init /\ [][NextNoReset]_vars

\* The runs in which the loop never ends and 'r' is never pressed.  Every
\* iteration ends with Tick() (weak fairness: nothing else is enabled at
\* "tick"), and time keeps advancing: the loop sleeps whenever getch() times
\* out (strong fairness: a keypress takes the place of the sleep).
NextLive ==
  \/ KeyNoneLive
  \/ KeyStartLive
  \/ LoopTick

SpecLive ==
  /\ Init
  /\ [][NextLive]_vars
  /\ WF_vars(LoopTick)
  /\ SF_vars(KeyNoneLive)

\* A PomodoroTimer under any sequence of calls.
NextTimer ==
  \/ CallStart
  \/ CallStop
  \/ CallIsRinging
  \/ TimerElapse

SpecTimer == Init /\ [][NextTimer]_vars

\* Any session state, serialized and constructed anew.
InitState ==
  /\ InitTimers
  /\ day_ \in Days
  /\ todos_ \in SeqsUpTo([done : BOOLEAN, text : Texts], MaxTodos)
  /\ history_ \in SeqsUpTo(Dones, MaxHistory)
  /\ proto = EmptyProto
  /\ restored = NoState
  /\ spc = "state"
  /\ current_item = 0

NextState ==
  \/ ToProto
  \/ FromProto

SpecState == InitState /\ [][NextState]_vars

\* The Todo view of main() over the State loaded at startup: every todo of
\* the file is not done, and the list is not empty.
InitTodo ==
  /\ InitTimers
  /\ day_ = "2021-04-19"
  /\ \E descrs \in SeqsUpTo(Texts, MaxTodos) :
       todos_ = StateFromProto([EmptyProto EXCEPT !.todo = descrs]).todos_
  /\ history_ = <<>>
  /\ proto = EmptyProto
  /\ restored = NoState
  /\ spc = "state"
  /\ current_item = 0

NextTodo ==
  \/ TodoUp
  \/ TodoDown
  \/ TodoToggle
  \/ TodoNew
  \/ TodoDelete

SpecTodo == InitTodo /\ [][NextTodo]_vars

\* ---- the steps of the loop that call a method of Pomodoro ----
StartCalled == pc = "getch" /\ ch' = "s"
ResetCalled == pc = "getch" /\ ch' = "r"
TickCalled == pc = "tick" /\ pc' = "getch"
QuitCalled == pc = "getch" /\ ch' = "q"

\* The last Phase pushed to phases.
LastPhase(ph) == ph[Len(ph)]

\* C1: Start() in WorkDone increments the counter; if the incremented
\* counter is >= 4 the counter becomes 0 and the break is the long one,
\* otherwise the counter keeps the incremented value and the break is the
\* short one; in both cases the phase is Pause with elapsed time 0.
C1_StartInWorkDone ==
  [][(StartCalled /\ state = WORK_DONE) =>
       /\ state' = PAUSE
       /\ elapsed_time' = 0
       /\ IF pomodoros_done + 1 >= 4
            THEN /\ pomodoros_done' = 0
                 /\ target_time' = Secs(kLongBreakSeconds)
            ELSE /\ pomodoros_done' = pomodoros_done + 1
                 /\ target_time' = Secs(kShortBreakSeconds)]_vars

\* Start() has just been called in WorkDone with the counter at 3.
C1_Witness ==
  /\ pc = "tick" /\ ch = "s" /\ called_in = WORK_DONE
  /\ state = PAUSE /\ elapsed_time = 0
  /\ pomodoros_done = 0
  /\ target_time = Secs(kLongBreakSeconds)

\* C2 as stated: without Reset, every Start() in WorkDone adds exactly 1 to
\* pomodoros_done and the first four breaks are short, the 5th being the
\* long one.  Without Reset the n-th break is the one begun with n recorded
\* phases.
C2_FifthBreakIsLong ==
  (state = PAUSE /\ Len(phases) <= 4) =>
     /\ target_time = Secs(kShortBreakSeconds)
     /\ pomodoros_done = Len(phases)

\* C2 amended: without Reset, every Start() in WorkDone moves to Pause and
\* adds 1 to pomodoros_done modulo 4: the 4th break is the long one (900s)
\* and resets the counter to 0, the three breaks before it are short (300s).
C2_FourthBreakIsLong ==
  /\ [](state = PAUSE =>
          /\ pomodoros_done = Len(phases) % 4
          /\ target_time = IF Len(phases) % 4 = 0
                             THEN Secs(kLongBreakSeconds)
                             ELSE Secs(kShortBreakSeconds))
  /\ [][(StartCalled /\ state = WORK_DONE) =>
          /\ state' = PAUSE
          /\ Len(phases') = Len(phases) + 1
          /\ pomodoros_done' = (pomodoros_done + 1) % 4]_vars

\* The 4th break of a run without Reset has begun: four work phases rang.
C2_Witness ==
  /\ state = PAUSE
  /\ Len(phases) = 4
  /\ \A i \in 1..4 : phases[i].length_seconds >= kWorkPhaseSeconds
  /\ target_time = Secs(kLongBreakSeconds)
  /\ pomodoros_done = 0

\* C3: Start() in WorkDone appends exactly one Phase, whose length is the
\* elapsed time of the work phase at the call, rounded to whole seconds:
\* the work target plus the overtime that every Tick in WorkDone has added;
\* Start() in any other phase appends nothing.
C3_StartRecordsWorkPhase ==
  [][/\ (StartCalled /\ state = WORK_DONE) =>
          /\ Len(phases') = Len(phases) + 1
          /\ SubSeq(phases', 1, Len(phases)) = phases
          /\ LastPhase(phases').length_seconds = lround(elapsed_time)
          /\ target_time = Secs(kWorkPhaseSeconds)
          /\ elapsed_time >= target_time
     /\ (StartCalled /\ state # WORK_DONE) => phases' = phases
     /\ (TickCalled /\ state = WORK_DONE) =>
          /\ elapsed_time' = elapsed_time + (now - last_update) * kTimeAcceleration
          /\ state' = WORK_DONE]_vars

\* Start() has just recorded a work phase that rang one quantum late and
\* ran 300s of overtime (1800.5s, recorded as 1801s).
C3_Witness ==
  /\ pc = "tick" /\ ch = "s" /\ called_in = WORK_DONE
  /\ Len(phases) = 1
  /\ elapsed_time = 0
  /\ phases[1].length_seconds =
       lround(Secs(kWorkPhaseSeconds) + 1 + Secs(kShortBreakSeconds))

\* C4: a countdown begun by Start() rings once: Tick() beeps on the first
\* Tick at which elapsed >= target in Working or Pause, and that Tick moves
\* Working to WorkDone or Pause to PauseDone; every other Tick (elapsed <
\* target, or phase WorkDone or PauseDone) neither beeps nor changes the
\* phase, so that no countdown has beeped more than once.
C4_TickRingsOnce ==
  /\ [](/\ beeps <= 1
        /\ state \in {WORKING, PAUSE} => beeps = 0
        /\ (pc = "getch" /\ state \in {WORKING, PAUSE}) =>
             elapsed_time < target_time)
  /\ [][TickCalled =>
          IF state \in {WORKING, PAUSE} /\ elapsed_time' >= target_time
            THEN /\ beeps' = beeps + 1
                 /\ state = WORKING => state' = WORK_DONE
                 /\ state = PAUSE => state' = PAUSE_DONE
            ELSE /\ beeps' = beeps
                 /\ state' = state]_vars

\* A work countdown has rung and a later Tick has added 300s of overtime
\* or more without ringing again.
C4_Witness ==
  /\ pc = "getch"
  /\ state = WORK_DONE
  /\ beeps = 1
  /\ elapsed_time >= target_time + Secs(kShortBreakSeconds)

\* C5: Reset() in WorkDone moves to PauseDone and leaves pomodoros_done at
\* the value it had when that work phase began.
C5_ResetLeavesNoCredit ==
  [][(ResetCalled /\ state = WORK_DONE) =>
       /\ state' = PAUSE_DONE
       /\ pomodoros_done' = work_began_with]_vars

\* C6: Reset() in Working moves to PauseDone and leaves pomodoros_done and
\* the history unchanged; Start() in PauseDone, hence the Start() that
\* follows, begins a work countdown (Working, elapsed 0, target 1500s) and
\* appends nothing.
C6_ResetInWorking ==
  [][/\ (ResetCalled /\ state = WORKING) =>
          /\ state' = PAUSE_DONE
          /\ pomodoros_done' = pomodoros_done
          /\ phases' = phases
     /\ (StartCalled /\ state = PAUSE_DONE) =>
          /\ state' = WORKING
          /\ elapsed_time' = 0
          /\ target_time' = Secs(kWorkPhaseSeconds)
          /\ pomodoros_done' = pomodoros_done
          /\ phases' = phases]_vars

\* Reset() has just been called in Working, after a credited work phase.
C6_Witness ==
  /\ pc = "tick" /\ ch = "r" /\ called_in = WORKING
  /\ state = PAUSE_DONE
  /\ pomodoros_done = 1
  /\ Len(phases) = 1

\* C7: Reset() in Pause moves to WorkDone and itself leaves pomodoros_done
\* and the history unchanged.
C7_ResetInPause ==
  [][(ResetCalled /\ state = PAUSE) =>
       /\ state' = WORK_DONE
       /\ pomodoros_done' = pomodoros_done
       /\ phases' = phases]_vars

\* Reset() has just been called in Pause, the break of a recorded phase.
C7_Witness ==
  /\ pc = "tick" /\ ch = "r" /\ called_in = PAUSE
  /\ state = WORK_DONE
  /\ pomodoros_done = 1
  /\ Len(phases) = 1

\* C8: Reset() in PauseDone, the initial state included, changes nothing:
\* phase, target, elapsed time, pomodoros_done and history.
C8_ResetInPauseDone ==
  [][(ResetCalled /\ state = PAUSE_DONE) =>
       UNCHANGED <<state, target_time, elapsed_time, pomodoros_done,
                   phases>>]_vars

\* Reset() has just been called in the initial state.
C8_Witness ==
  /\ pc = "tick" /\ ch = "r" /\ called_in = PAUSE_DONE
  /\ state = PAUSE_DONE
  /\ target_time = 0 /\ elapsed_time = 0

\* C9: Start() in Working or Pause changes nothing: phase, target, elapsed
\* time, last-update instant, pomodoros_done and history.
C9_StartWhileRunning ==
  [][(StartCalled /\ state \in {WORKING, PAUSE}) =>
       UNCHANGED <<state, target_time, elapsed_time, last_update,
                   pomodoros_done, phases>>]_vars

\* Start() has just been called in a break that has run for some time,
\* some more time having passed since the last Tick.
C9_Witness ==
  /\ pc = "tick" /\ ch = "s" /\ called_in = PAUSE
  /\ state = PAUSE
  /\ elapsed_time > 0
  /\ last_update < now

\* C10: quitting the loop in Working as well as in WorkDone adds one work
\* interval for the phase in flight to the history.
C10_QuitFinalizesWork ==
  [][(QuitCalled /\ state \in {WORKING, WORK_DONE}) =>
       Len(phases') = Len(phases) + 1]_vars

\* C11: after any sequence of Start, Reset, Tick and the shutdown
\* FinishWork, pomodoros_done is in 0..4 (4 only after the shutdown
\* FinishWork), and the Start() whose FinishWork brings it to 4 resets it to
\* 0 and starts the long break.
C11_CounterRange ==
  /\ [](/\ pomodoros_done \in 0..4
        /\ pomodoros_done = 4 => pc = "done")
  /\ [][(StartCalled /\ state = WORK_DONE /\ pomodoros_done + 1 = 4) =>
          /\ pomodoros_done' = 0
          /\ target_time' = Secs(kLongBreakSeconds)]_vars

\* The loop was quit in WorkDone with three pomodoros done: the shutdown
\* FinishWork has brought the counter to 4.
C11_Witness ==
  /\ pc = "done"
  /\ state = WORK_DONE
  /\ pomodoros_done = 4

\* C12: IsRinging() is edge-triggered: since the last Start(target), over
\* any sequence of IsRinging() calls and clock advances, it returns true on
\* exactly the first call made with elapsed >= target and false on every
\* other call; has_rung is cleared by Start() only.
C12_IsRingingEdgeTriggered ==
  /\ [][CallIsRinging =>
          ringing' = (ElapsedSeconds >= target_duration_seconds /\ ~rang_before)]_vars
  /\ [][(has_rung /\ ~has_rung') =>
          \E target_duration \in TimerTargets : PTStart(target_duration)]_vars

\* An IsRinging() made past the target, after the one that returned true,
\* has returned false.
C12_Witness ==
  /\ active
  /\ target_duration_seconds > 0
  /\ ElapsedSeconds > target_duration_seconds
  /\ has_rung
  /\ rang_before
  /\ ringing = FALSE

\* C13: for a PomodoroTimer started with target > 0 and any elapsed time t:
\* RemainingSeconds() = target - t when t < target and 0 otherwise,
\* OvertimeSeconds() = t - target when t > target and 0 otherwise, and the
\* two are never both positive.
C13_RemainingAndOvertime ==
  LET tg == target_duration_seconds
      t == ElapsedSeconds
      remaining == RemainingSeconds(tg, t)
      overtime == OvertimeSeconds(tg, t)
  IN tg > 0 =>
       /\ t >= 0
       /\ remaining = IF t < tg THEN tg - t ELSE 0
       /\ overtime = IF t > tg THEN t - tg ELSE 0
       /\ ~(remaining > 0 /\ overtime > 0)

\* A running timer is past its target: overtime is positive.
C13_Witness ==
  /\ active
  /\ target_duration_seconds > 0
  /\ OvertimeSeconds(target_duration_seconds, ElapsedSeconds) > 0
  /\ RemainingSeconds(target_duration_seconds, ElapsedSeconds) = 0

\* C14: the elapsed fraction for rendering is a number in [0,1] at all times
\* (within [0,1] while counting down, 1.0 once done), also for the timer as
\* constructed, whose target is 0.
C14_FractionInUnitInterval ==
  LET f == ElapsedFraction(target_duration_seconds, ElapsedSeconds)
  IN /\ f.den # 0
     /\ 0 <= f.num
     /\ f.num <= f.den

\* C16: Stop() on a timer that is not active returns the empty interval and
\* changes no state; Stop() on an active timer returns the elapsed time of
\* that moment as the duration and leaves the timer inactive with
\* ElapsedSeconds() = 0, so that a Stop() right after returns the empty one.
C16_Stop ==
  [][CallStop =>
       IF active
         THEN /\ done'.duration_seconds = ElapsedSeconds
              /\ done'.start_time = FormatTime(pt_start[1])
              /\ done'.end_time = FormatTime(WallClock(now))
              /\ ~active'
              /\ ElapsedSeconds' = 0
         ELSE /\ done' = EmptyDone
              /\ UNCHANGED <<timer_start, target_duration_seconds, has_rung,
                             pt_start>>]_vars

\* Stop() has returned the empty interval on a timer that ran, rang and was
\* stopped before.
C16_Witness ==
  /\ ~active
  /\ has_rung
  /\ done = EmptyDone

\* C15 as stated: in WorkDone and in PauseDone every Tick adds the
\* accelerated time since the previous Tick to elapsed_time and leaves the
\* phase unchanged.
C15_TickCountsInBothDonePhases ==
  [][(TickCalled /\ state \in {WORK_DONE, PAUSE_DONE}) =>
       /\ elapsed_time' = elapsed_time + (now - last_update) * kTimeAcceleration
       /\ state' = state]_vars

\* C15 amended: in WorkDone every Tick adds the accelerated time since the
\* previous Tick to elapsed_time, so overtime grows; in PauseDone Tick
\* leaves elapsed_time and last_update as they are; in both the phase stays.
C15_TickCountsInWorkDoneOnly ==
  [][/\ (TickCalled /\ state = WORK_DONE) =>
          /\ elapsed_time' = elapsed_time + (now - last_update) * kTimeAcceleration
          /\ last_update' = now
          /\ state' = WORK_DONE
     /\ (TickCalled /\ state = PAUSE_DONE) =>
          /\ elapsed_time' = elapsed_time
          /\ last_update' = last_update
          /\ state' = PAUSE_DONE]_vars

\* A break has rung exactly at its target and the clock has since advanced
\* by more than a short break while elapsed_time stayed at the target.
C15_Witness ==
  /\ pc = "getch"
  /\ state = PAUSE_DONE
  /\ beeps = 1
  /\ elapsed_time = target_time
  /\ now > last_update + Secs(kShortBreakSeconds)

\* The todo items of td that are not done, in order.
Pending(td) == SelectSeq(td, LAMBDA item : ~item.done)

\* C17 as stated: State(s.ToProto()) has the same day, the same todo list
\* and the same history as s, for every s.
C17_RoundTripIdentity ==
  spc = "restored" =>
    /\ restored.day_ = day_
    /\ restored.todos_ = todos_
    /\ restored.history_ = history_

\* C17 amended: State(s.ToProto()) has the same day and the same history as
\* s; its todo list is the items of s that are not done, in order, or the
\* single item "Make TODO list" when s has none.
C17_RoundTripOfPending ==
  spc = "restored" =>
    /\ restored.day_ = day_
    /\ restored.history_ = history_
    /\ restored.todos_ = IF Pending(todos_) = <<>> THEN <<DefaultTodo>>
                                                    ELSE Pending(todos_)

\* A state with done items only and a history has made the round trip.
C17_Witness ==
  /\ spc = "restored"
  /\ Len(todos_) = 2
  /\ \A i \in 1..2 : todos_[i].done
  /\ Len(history_) = 2
  /\ restored.todos_ = <<DefaultTodo>>

\* C18: while Tick() keeps being called, time advances and Reset() is not
\* called, every Working phase leads to WorkDone and every Pause phase to
\* PauseDone; a Done phase is left only by Start() or Reset(), never by Tick().
C18_CountdownsComplete ==
  /\ (state = WORKING) ~> (state = WORK_DONE)
  /\ (state = PAUSE) ~> (state = PAUSE_DONE)
  /\ [][(state \in {WORK_DONE, PAUSE_DONE} /\ state' # state)
          => (StartCalled \/ ResetCalled)]_vars
  /\ [][(TickCalled /\ state \in {WORK_DONE, PAUSE_DONE}) => state' = state]_vars

\* A break has rung after the horizon of the idle time.
C18_Witness ==
  /\ state = PAUSE_DONE
  /\ beeps = 1
  /\ Len(phases) >= 1
  /\ last_update > Secs(MaxNowLiveSeconds)
  /\ pc = "getch"

\* C19: no work phase is credited twice: the work intervals of the history
\* (one pomodoro credit each) never outnumber the work countdowns that ran
\* to their target in Tick().
C19_NoDoubleCredit ==
  Len(phases) <= work_rings

\* C20: in WorkDone and PauseDone elapsed_time >= target_time, so the
\* overtime that Draw() shows is never negative; right after every Tick()
\* elapsed_time < target_time in Working and Pause.
C20_ElapsedAgainstTarget ==
  /\ [](state \in {WORK_DONE, PAUSE_DONE} =>
          /\ elapsed_time >= target_time
          /\ Draw_overtime >= 0)
  /\ [][(TickCalled /\ state' \in {WORKING, PAUSE}) =>
          /\ elapsed_time' < target_time'
          /\ Draw_remaining' >= 0]_vars

\* Reset() has turned a break short of its target into WorkDone, and Tick()
\* has counted overtime on it.
C20_Witness ==
  /\ pc = "getch"
  /\ state = WORK_DONE
  /\ beeps = 0
  /\ Len(phases) >= 1
  /\ elapsed_time > target_time

\* C21: IsRinging() never returns true on a timer that is not active:
\* on a timer as constructed and on a timer after Stop(), every call returns
\* false.
C21_SilentWhenNotActive ==
  [][(CallIsRinging /\ ~active) => ringing' = FALSE]_vars

\* C22: after any sequence of Up, Down, New, Toggle and Delete, whenever the
\* todo list is not empty current_item is a valid index of it
\* (0 <= current_item < number of todos); Toggle and Delete with a selection
\* out of range leave the list unchanged.
C22_SelectionValid ==
  /\ [](todos_ # <<>> => (0 <= current_item /\ current_item < Len(todos_)))
  /\ [][((TodoToggle \/ TodoDelete) /\ IndexBeyondSize(current_item, todos_))
          => todos_' = todos_]_vars

====
